---- MODULE Spec2Model ----
(***************************************************************************)
(* OAuth2 token-introspection request filter (src/src/lib.rs).             *)
(*                                                                         *)
(* configure parses the configuration bytes and registers request_filter.  *)
(* request_filter runs do_filter for one inbound request and maps its      *)
(* result to Flow::Continue or to an early response (401 / 500) plus one   *)
(* log line.  do_filter has one suspension point, the await of the         *)
(* introspection POST; an evaluation is therefore two steps: the part     *)
(* before the await (request_filter_call) and the part that runs when the  *)
(* transport completes (request_filter_resume).                            *)
(***************************************************************************)
EXTENDS Integers, Sequences, FiniteSets, TLC

\* ------------------------------------------------------------------ bounds
\* Epoch seconds range over 0..MaxTime (clock readings, exp and nbf).
MaxTime == 2
\* Number of request evaluations the host keeps in flight at once.
NumReqs == 2

\* ------------------------------------------------------- program constants
HTTP_OK == 200
HTTP_UNAUTHORIZED == 401
HTTP_SERVER_ERROR == 500

Reqs == 1..NumReqs
Times == 0..MaxTime

VARIABLES
    filter,    \* "init" | "launched" | "failed": what configure has done
    config,    \* the Config value parsed by configure (NoConfig before)
    pc,        \* pc[r]: "idle" | "awaiting" | "done"
    request,   \* request[r]: the inbound request (its headers) being evaluated
    call,      \* call[r]: sequence of introspection requests sent for r
    reply,     \* reply[r]: what the transport returned for r's call
    clock,     \* clock[r]: result of SystemTime::now().duration_since(UNIX_EPOCH)
    outcome,   \* outcome[r]: result of do_filter ("None" while undecided)
    flow,      \* flow[r]: the Flow returned by request_filter
    log,       \* log[r]: log entries written by r's evaluation
    steps      \* steps[r]: the pipeline steps r's evaluation has performed

vars == <<filter, config, pc, request, call, reply, clock, outcome, flow, log, steps>>

\* ------------------------------------------------------------ configuration
\* generated::config::Config: upstream, host, path, authorization and the
\* token extractor descriptor.
NoConfig == [upstream |-> "", host |-> "", path |-> "", authorization |-> "",
             token_extractor |-> ""]

Configs ==
    { [upstream |-> "idp", host |-> "idp.example", path |-> "/introspect",
       authorization |-> "Basic A", token_extractor |-> "bearer"],
      [upstream |-> "idp2", host |-> "idp2.example", path |-> "/oauth/introspect",
       authorization |-> "Basic B", token_extractor |-> "bearer"] }

\* Configuration bytes handed to configure: a JSON document that deserializes
\* to a Config, or bytes that do not.
ConfigBytes ==
    { [valid |-> TRUE, cfg |-> c] : c \in Configs } \cup
    { [valid |-> FALSE, cfg |-> NoConfig] }

\* serde_json::from_slice(&bytes) into Config
config_from_slice(bytes) ==
    IF bytes.valid THEN [ok |-> TRUE, val |-> bytes.cfg]
    ELSE [ok |-> FALSE, val |-> NoConfig]

\* ---------------------------------------------------------- inbound request
\* Tokens are short character sequences; some characters need escaping in a
\* form-encoded body.
Tokens == { <<"a", "b">>, <<"a", " ", "&">> }

\* What the configured token extractor resolves to on the request's headers:
\* an error, a value that is not a string (null, a number), or a string.
Resolved ==
    { [k |-> "err",  s |-> <<>>], [k |-> "null", s |-> <<>>],
      [k |-> "num",  s |-> <<>>] } \cup
    { [k |-> "str", s |-> t] : t \in Tokens }

\* Other request headers, irrelevant to the extractor.
OtherHeaders == { "curl", "browser" }

Requests == [resolved : Resolved, agent : OtherHeaders]
NoRequest == [resolved |-> [k |-> "err", s |-> <<>>], agent |-> ""]

\* config.token_extractor.resolve_on_headers(&request)
resolve_on_headers(req) ==
    IF req.resolved.k = "err" THEN [ok |-> FALSE, val |-> req.resolved]
    ELSE [ok |-> TRUE, val |-> req.resolved]

\* Value::as_str
as_str(val) ==
    IF val.k = "str" THEN [some |-> TRUE, s |-> val.s]
    ELSE [some |-> FALSE, s |-> <<>>]

\* ------------------------------------------------------ introspection call
\* form_urlencoded byte serialisation of one character: alphanumerics are kept,
\* a space becomes "+", anything else is percent-encoded.
byte_serialize(c) ==
    CASE c \in {"a", "b"} -> <<c>>
      [] c = " " -> <<"+">>
      [] c = "&" -> <<"%", "2", "6">>
      [] OTHER -> <<"%", "?", "?">>

RECURSIVE encode(_)
encode(s) == IF s = <<>> THEN <<>> ELSE byte_serialize(Head(s)) \o encode(Tail(s))

\* serde_urlencoded::to_string([("token", token)]): cannot fail on a pair of
\* strings, so the map_err(Unexpected) of line 35 is never taken.
to_string(token) == [ok |-> TRUE, val |-> <<"token", "=">> \o encode(token)]

\* The POST built by introspect_token before the await.
introspect_token_request(token, cfg) ==
    LET body == to_string(token) IN
    [ok       |-> body.ok,
     upstream |-> cfg.upstream,
     host     |-> cfg.host,
     path     |-> cfg.path,
     method   |-> "POST",
     headers  |-> << <<"content-type", "application/x-www-form-urlencoded">>,
                     <<"Authorization", cfg.authorization>> >>,
     body     |-> body.val]

\* post() resending the request once more (a retry).
post_with_retry(calls, req) == Append(Append(calls, req), req)

\* .post(): the request goes out on the transport; calls are the requests this
\* evaluation has sent so far.
post(calls, req) == Append(calls, req)

\* --------------------------------------------------- introspection response
\* A JSON member of the response body: absent, null, a boolean, a number or a
\* string.  b is meaningful for "bool", n for "num".
JAbsent == [k |-> "absent", b |-> FALSE, n |-> 0]
JNull == [k |-> "null", b |-> FALSE, n |-> 0]
JStr == [k |-> "str", b |-> FALSE, n |-> 0]
JBool(v) == [k |-> "bool", b |-> v, n |-> 0]
JNum(v) == [k |-> "num", b |-> FALSE, n |-> v]

ActiveMembers == { JAbsent, JStr, JBool(TRUE), JBool(FALSE) }
TimeMembers == { JAbsent, JNull, JNum(-1) } \cup { JNum(t) : t \in Times }

\* Response bodies: bytes that are not JSON, or a JSON object with any
\* combination of the three members.
NotJson == [valid |-> FALSE, active |-> JAbsent, exp |-> JAbsent, nbf |-> JAbsent]
Bodies ==
    { NotJson } \cup
    [valid : {TRUE}, active : ActiveMembers, exp : TimeMembers, nbf : TimeMembers]

Statuses == { HTTP_OK, HTTP_UNAUTHORIZED, 503 }

\* What the awaited post() yields: an HttpClientError, or a response.
Replies ==
    { [k |-> "err", detail |-> d, status |-> 0, body |-> NotJson]
        : d \in {"refused", "timeout"} } \cup
    { [k |-> "resp", detail |-> "", status |-> st, body |-> b]
        : st \in Statuses, b \in Bodies }
NoReply == [k |-> "none", detail |-> "", status |-> 0, body |-> NotJson]

\* IntrospectionResponse { active: bool, exp: Option<u64>, nbf: Option<u64> }
None == [some |-> FALSE, v |-> 0]
Some(x) == [some |-> TRUE, v |-> x]
NoIntrospectionResponse == [active |-> FALSE, exp |-> None, nbf |-> None]

\* Deserialising one member: a bool is required; an Option<u64> accepts an
\* absent member, null, or a non-negative integer.
bool_ok(m) == m.k = "bool"
option_u64_ok(m) == m.k \in {"absent", "null"} \/ (m.k = "num" /\ m.n >= 0)
option_u64(m) == IF m.k = "num" THEN Some(m.n) ELSE None

\* from_slice as if `active` carried #[serde(default)]: a missing member is
\* read as false instead of failing the parse.
from_slice_default_active(body) ==
    CASE ~body.valid ->
           [ok |-> FALSE, detail |-> "syntax", val |-> NoIntrospectionResponse]
      [] body.valid /\ (   (body.active.k # "absent" /\ ~bool_ok(body.active))
                        \/ ~option_u64_ok(body.exp)
                        \/ ~option_u64_ok(body.nbf)) ->
           [ok |-> FALSE, detail |-> "invalid type", val |-> NoIntrospectionResponse]
      [] OTHER ->
           [ok |-> TRUE, detail |-> "",
            val |-> [active |-> body.active.b,
                     exp |-> option_u64(body.exp),
                     nbf |-> option_u64(body.nbf)]]

\* serde_json::from_slice(response.body()) into IntrospectionResponse
from_slice(body) ==
    CASE ~body.valid ->
           [ok |-> FALSE, detail |-> "syntax", val |-> NoIntrospectionResponse]
      [] body.valid /\ (   (body.active.k # "absent" /\ ~bool_ok(body.active))
                        \/ ~option_u64_ok(body.exp)
                        \/ ~option_u64_ok(body.nbf)) ->
           [ok |-> FALSE, detail |-> "invalid type", val |-> NoIntrospectionResponse]
      [] OTHER ->
           IF body.active.k = "absent"
           THEN [ok |-> FALSE, detail |-> "missing field active",
                 val |-> NoIntrospectionResponse]
           ELSE [ok |-> TRUE, detail |-> "",
                 val |-> [active |-> body.active.b,
                          exp |-> option_u64(body.exp),
                          nbf |-> option_u64(body.nbf)]]

\* ------------------------------------------------------------ FilterError
\* Result<_, FilterError>: tag "Ok" or the variant's name, with the payload
\* of ClientError / NonParsableIntrospectionBody in detail.
Ok == [tag |-> "Ok", detail |-> ""]
Err(tag, detail) == [tag |-> tag, detail |-> detail]
Undecided == [tag |-> "None", detail |-> ""]

FilterErrors == { "Unexpected", "NoToken", "InactiveToken", "ExpiredToken",
                  "NotYetActive", "ClientError", "NonParsableIntrospectionBody" }

\* introspect_token without the status test: the body is parsed whatever the
\* status code.
introspect_token_any_status(rep) ==
    IF rep.k = "err"
    THEN [res |-> Err("ClientError", rep.detail),
          val |-> NoIntrospectionResponse, steps |-> <<>>]
    ELSE LET p == from_slice(rep.body) IN
         IF p.ok
         THEN [res |-> Ok, val |-> p.val, steps |-> <<"status", "parse">>]
         ELSE [res |-> Err("NonParsableIntrospectionBody", p.detail),
               val |-> NoIntrospectionResponse, steps |-> <<"status", "parse">>]

\* introspect_token with a transport failure reported as InactiveToken.
introspect_token_err_inactive(rep) ==
    IF rep.k = "err"
    THEN [res |-> Err("InactiveToken", ""),
          val |-> NoIntrospectionResponse, steps |-> <<>>]
    ELSE IF rep.status = HTTP_OK
         THEN LET p == from_slice(rep.body) IN
              IF p.ok
              THEN [res |-> Ok, val |-> p.val, steps |-> <<"status", "parse">>]
              ELSE [res |-> Err("NonParsableIntrospectionBody", p.detail),
                    val |-> NoIntrospectionResponse,
                    steps |-> <<"status", "parse">>]
         ELSE [res |-> Err("InactiveToken", ""),
               val |-> NoIntrospectionResponse, steps |-> <<"status">>]

\* introspect_token after the await: the transport result, the status test
\* and the body parse.  steps lists what was performed.
introspect_token(rep) ==
    IF rep.k = "err"
    THEN [res |-> Err("ClientError", rep.detail),
          val |-> NoIntrospectionResponse, steps |-> <<>>]
    ELSE IF rep.status = HTTP_OK
         THEN LET p == from_slice(rep.body) IN
              IF p.ok
              THEN [res |-> Ok, val |-> p.val, steps |-> <<"status", "parse">>]
              ELSE [res |-> Err("NonParsableIntrospectionBody", p.detail),
                    val |-> NoIntrospectionResponse,
                    steps |-> <<"status", "parse">>]
         ELSE [res |-> Err("InactiveToken", ""),
               val |-> NoIntrospectionResponse, steps |-> <<"status">>]

\* SystemTime::now().duration_since(UNIX_EPOCH): the seconds since the epoch,
\* or an error when the system clock is before the epoch.
ClockReads == { [k |-> "err", t |-> 0] } \cup { [k |-> "ok", t |-> t] : t \in Times }
ClockUnread == [k |-> "unread", t |-> 0]

\* expired with a non-strict comparison (now >= exp).
expired_non_strict(response, now) ==
    IF response.exp.some THEN now >= response.exp.v ELSE FALSE

\* expired with an absent exp read as "expired" (unwrap_or(true)).
expired_absent_true(response, now) ==
    IF response.exp.some THEN now > response.exp.v ELSE TRUE

\* response.exp.map(|exp| now > exp).unwrap_or_default()
expired(response, now) == IF response.exp.some THEN now > response.exp.v ELSE FALSE

\* not_yet_active with a non-strict comparison (now <= nbf).
not_yet_active_non_strict(response, now) ==
    IF response.nbf.some THEN now <= response.nbf.v ELSE FALSE

\* response.nbf.map(|nbf| now < nbf).unwrap_or_default()
not_yet_active(response, now) == IF response.nbf.some THEN now < response.nbf.v ELSE FALSE

\* validate with the active test moved after the expiry test.
validate_active_after_exp(response, clk) ==
    IF clk.k # "ok"
    THEN [res |-> Err("Unexpected", ""), steps |-> <<"clock">>]
    ELSE IF expired(response, clk.t)
    THEN [res |-> Err("ExpiredToken", ""), steps |-> <<"clock", "exp">>]
    ELSE IF ~response.active
    THEN [res |-> Err("InactiveToken", ""), steps |-> <<"clock", "exp", "active">>]
    ELSE IF not_yet_active(response, clk.t)
    THEN [res |-> Err("NotYetActive", ""),
          steps |-> <<"clock", "exp", "active", "nbf">>]
    ELSE [res |-> Ok, steps |-> <<"clock", "exp", "active", "nbf">>]

\* validate with the not-before test moved before the expiry test.
validate_nbf_before_exp(response, clk) ==
    IF clk.k # "ok"
    THEN [res |-> Err("Unexpected", ""), steps |-> <<"clock">>]
    ELSE IF ~response.active
    THEN [res |-> Err("InactiveToken", ""), steps |-> <<"clock", "active">>]
    ELSE IF not_yet_active(response, clk.t)
    THEN [res |-> Err("NotYetActive", ""), steps |-> <<"clock", "active", "nbf">>]
    ELSE IF expired(response, clk.t)
    THEN [res |-> Err("ExpiredToken", ""),
          steps |-> <<"clock", "active", "nbf", "exp">>]
    ELSE [res |-> Ok, steps |-> <<"clock", "active", "nbf", "exp">>]

\* validate with the active test made before the clock is read.
validate_active_before_clock(response, clk) ==
    IF ~response.active
    THEN [res |-> Err("InactiveToken", ""), steps |-> <<"active">>]
    ELSE IF clk.k # "ok"
    THEN [res |-> Err("Unexpected", ""), steps |-> <<"active", "clock">>]
    ELSE IF expired(response, clk.t)
    THEN [res |-> Err("ExpiredToken", ""), steps |-> <<"active", "clock", "exp">>]
    ELSE IF not_yet_active(response, clk.t)
    THEN [res |-> Err("NotYetActive", ""),
          steps |-> <<"active", "clock", "exp", "nbf">>]
    ELSE [res |-> Ok, steps |-> <<"active", "clock", "exp", "nbf">>]

\* validate without the not-before test.
validate_skip_nbf(response, clk) ==
    IF clk.k # "ok"
    THEN [res |-> Err("Unexpected", ""), steps |-> <<"clock">>]
    ELSE IF ~response.active
    THEN [res |-> Err("InactiveToken", ""), steps |-> <<"clock", "active">>]
    ELSE IF expired(response, clk.t)
    THEN [res |-> Err("ExpiredToken", ""), steps |-> <<"clock", "active", "exp">>]
    ELSE [res |-> Ok, steps |-> <<"clock", "active", "exp", "nbf">>]

\* validate reading the clock again for the not-before test; the second
\* reading is later than the first.
validate_two_clock_reads(response, clk) ==
    IF clk.k # "ok"
    THEN [res |-> Err("Unexpected", ""), steps |-> <<"clock">>]
    ELSE IF ~response.active
    THEN [res |-> Err("InactiveToken", ""), steps |-> <<"clock", "active">>]
    ELSE IF expired(response, clk.t)
    THEN [res |-> Err("ExpiredToken", ""), steps |-> <<"clock", "active", "exp">>]
    ELSE IF not_yet_active(response, clk.t + 1)
    THEN [res |-> Err("NotYetActive", ""),
          steps |-> <<"clock", "active", "exp", "clock", "nbf">>]
    ELSE [res |-> Ok, steps |-> <<"clock", "active", "exp", "clock", "nbf">>]

\* do_filter from the clock read to its end, on a parsed response.
validate(response, clk) ==
    IF clk.k # "ok"
    THEN [res |-> Err("Unexpected", ""), steps |-> <<"clock">>]
    ELSE IF ~response.active
    THEN [res |-> Err("InactiveToken", ""), steps |-> <<"clock", "active">>]
    ELSE IF expired(response, clk.t)
    THEN [res |-> Err("ExpiredToken", ""), steps |-> <<"clock", "active", "exp">>]
    ELSE IF not_yet_active(response, clk.t)
    THEN [res |-> Err("NotYetActive", ""),
          steps |-> <<"clock", "active", "exp", "nbf">>]
    ELSE [res |-> Ok, steps |-> <<"clock", "active", "exp", "nbf">>]

\* extract_token with a resolved non-string value reported as Unexpected.
extract_token_non_string_unexpected(req) ==
    LET result == resolve_on_headers(req) IN
    IF ~result.ok THEN [res |-> Err("NoToken", ""), token |-> <<>>]
    ELSE LET token == as_str(result.val) IN
         IF ~token.some THEN [res |-> Err("Unexpected", ""), token |-> <<>>]
         ELSE [res |-> Ok, token |-> token.s]

\* extract_token that also looks at another request header: requests of one
\* agent are treated as carrying no token.
extract_token_agent_dependent(req) ==
    LET result == resolve_on_headers(req) IN
    IF ~result.ok \/ req.agent = "curl"
    THEN [res |-> Err("NoToken", ""), token |-> <<>>]
    ELSE LET token == as_str(result.val) IN
         IF ~token.some THEN [res |-> Err("NoToken", ""), token |-> <<>>]
         ELSE [res |-> Ok, token |-> token.s]

\* do_filter up to the await: token extraction.
extract_token(req) ==
    LET result == resolve_on_headers(req) IN
    IF ~result.ok THEN [res |-> Err("NoToken", ""), token |-> <<>>]
    ELSE LET token == as_str(result.val) IN
         IF ~token.some THEN [res |-> Err("NoToken", ""), token |-> <<>>]
         ELSE [res |-> Ok, token |-> token.s]

\* The clock readings an evaluation resumed with rep can get: the clock is
\* read only once introspect_token has returned a parsed response.
clock_reads(rep) ==
    IF introspect_token(rep).res.tag = "Ok" THEN ClockReads ELSE {ClockUnread}

\* do_filter after the await: `?` on introspect_token, then the time checks.
do_filter_resume(rep, clk) ==
    LET i == introspect_token(rep) IN
    IF i.res.tag # "Ok"
    THEN [res |-> i.res, steps |-> i.steps, clock |-> ClockUnread]
    ELSE LET v == validate(i.val, clk) IN
         [res |-> v.res, steps |-> i.steps \o v.steps, clock |-> clk]

\* ------------------------------------------------------------ outcome mapper
Response(status, headers) == [status |-> status, headers |-> headers, body |-> <<>>]
NoResponse == [status |-> 0, headers |-> <<>>, body |-> <<>>]

Continue == [kind |-> "Continue", response |-> NoResponse]
Break(resp) == [kind |-> "Break", response |-> resp]
NoFlow == [kind |-> "None", response |-> NoResponse]

unauthorized_response ==
    Break(Response(HTTP_UNAUTHORIZED,
                   << <<"WWW-Authenticate", "Bearer realm=\"oauth2\"">> >>))

server_error_response == Break(Response(HTTP_SERVER_ERROR, <<>>))

LogEntry(level, msg, detail) == [level |-> level, msg |-> msg, detail |-> detail]

\* flow_of with an Unexpected arm that produces no response.
flow_of_unexpected_no_response(res) ==
    CASE res.tag = "Ok" -> Continue
      [] res.tag = "Unexpected" -> NoFlow
      [] res.tag \in {"NoToken", "InactiveToken", "ExpiredToken", "NotYetActive"} ->
           unauthorized_response
      [] OTHER -> server_error_response

\* flow_of with the InactiveToken arm answering like the arm above it.
flow_of_inactive_500(res) ==
    CASE res.tag = "Ok" -> Continue
      [] res.tag \in {"NoToken", "ExpiredToken", "NotYetActive"} -> unauthorized_response
      [] OTHER -> server_error_response

\* The match of request_filter: the Flow returned for a do_filter result.
flow_of(res) ==
    CASE res.tag = "Ok" -> Continue
      [] res.tag = "Unexpected" -> server_error_response
      [] res.tag = "NoToken" -> unauthorized_response
      [] res.tag = "InactiveToken" -> unauthorized_response
      [] res.tag = "ExpiredToken" -> unauthorized_response
      [] res.tag = "NotYetActive" -> unauthorized_response
      [] res.tag = "ClientError" -> server_error_response
      [] res.tag = "NonParsableIntrospectionBody" -> server_error_response

\* log_of with the ClientError arm logging at debug.
log_of_client_error_debug(res) ==
    CASE res.tag = "Ok" -> <<>>
      [] res.tag \in {"Unexpected", "NonParsableIntrospectionBody"} ->
           << LogEntry("warn", "error", res.detail) >>
      [] OTHER -> << LogEntry("debug", "rejected", res.detail) >>

\* The match of request_filter: the log lines written for a do_filter result.
log_of(res) ==
    CASE res.tag = "Ok" -> <<>>
      [] res.tag = "Unexpected" ->
           << LogEntry("warn", "Unexpected error occurred while processing the request.", "") >>
      [] res.tag = "NoToken" ->
           << LogEntry("debug", "No authorization token was provided.", "") >>
      [] res.tag = "InactiveToken" ->
           << LogEntry("debug", "Token is marked as inactive by the introspection endpoint.", "") >>
      [] res.tag = "ExpiredToken" ->
           << LogEntry("debug", "Expiration time on the token has been exceeded.", "") >>
      [] res.tag = "NotYetActive" ->
           << LogEntry("debug", "Token is not yet valid, since time set in the nbf claim has not been reached.", "") >>
      [] res.tag = "ClientError" ->
           << LogEntry("warn", "Error sending the request to the introspection endpoint.", res.detail) >>
      [] res.tag = "NonParsableIntrospectionBody" ->
           << LogEntry("warn", "Error parsing the response from the introspection endpoint.", res.detail) >>

\* request_filter as a whole on one request: what it returns for the request
\* req under configuration cfg when the introspection call yields rep and
\* the clock reads clk.
Evaluate(req, cfg, rep, clk) ==
    LET e == extract_token(req)
        built == introspect_token_request(e.token, cfg)
    IN IF e.res.tag # "Ok" THEN [res |-> e.res, flow |-> flow_of(e.res)]
       ELSE IF ~built.ok
       THEN [res |-> Err("Unexpected", ""), flow |-> flow_of(Err("Unexpected", ""))]
       ELSE LET d == do_filter_resume(rep, clk) IN
            [res |-> d.res, flow |-> flow_of(d.res)]

\* ------------------------------------------------------------------- state
Init ==
    /\ filter = "init"
    /\ config = NoConfig
    /\ pc = [r \in Reqs |-> "idle"]
    /\ request = [r \in Reqs |-> NoRequest]
    /\ call = [r \in Reqs |-> <<>>]
    /\ reply = [r \in Reqs |-> NoReply]
    /\ clock = [r \in Reqs |-> ClockUnread]
    /\ outcome = [r \in Reqs |-> Undecided]
    /\ flow = [r \in Reqs |-> NoFlow]
    /\ log = [r \in Reqs |-> <<>>]
    /\ steps = [r \in Reqs |-> <<>>]

\* The host runs one callback at a time and takes the Flow a callback returns
\* before it dispatches the next event.
HostIdle == \A q \in Reqs : pc[q] # "done"

\* configure that swallows the parse error and launches the filter with a
\* default configuration (unwrap_or_default instead of `?`).
configure_ignore_error(bytes) ==
    /\ filter = "init"
    /\ LET parsed == config_from_slice(bytes) IN
       /\ config' = parsed.val
       /\ filter' = "launched"
    /\ UNCHANGED <<pc, request, call, reply, clock, outcome, flow, log, steps>>

\* configure: parse the configuration bytes; on failure `?` returns before
\* the filter is registered, otherwise the filter is launched.
configure(bytes) ==
    /\ filter = "init"
    /\ LET parsed == config_from_slice(bytes) IN
       IF parsed.ok
       THEN /\ config' = parsed.val
            /\ filter' = "launched"
       ELSE /\ config' = config
            /\ filter' = "failed"
    /\ UNCHANGED <<pc, request, call, reply, clock, outcome, flow, log, steps>>

\* request_filter on a new request req, up to the await of the introspection
\* call: extract the token; without one the evaluation ends here with
\* NoToken, otherwise the POST is built and sent and the evaluation suspends.
request_filter_call(r) ==
    /\ filter = "launched"
    /\ HostIdle
    /\ pc[r] = "idle"
    /\ \E req \in Requests :
         /\ request' = [request EXCEPT ![r] = req]
         /\ LET e == extract_token(req)
                built == introspect_token_request(e.token, config)
                failed == IF e.res.tag # "Ok" THEN e.res
                          ELSE IF ~built.ok THEN Err("Unexpected", "")
                          ELSE Ok
            IN IF failed.tag # "Ok"
               THEN /\ pc' = [pc EXCEPT ![r] = "done"]
                    /\ outcome' = [outcome EXCEPT ![r] = failed]
                    /\ flow' = [flow EXCEPT ![r] = flow_of(failed)]
                    /\ log' = [log EXCEPT ![r] = log[r] \o log_of(failed)]
                    /\ steps' = [steps EXCEPT ![r] =
                         IF e.res.tag # "Ok" THEN <<"extract", "map">>
                         ELSE <<"extract", "build", "map">>]
                    /\ call' = call
               ELSE /\ pc' = [pc EXCEPT ![r] = "awaiting"]
                    /\ call' = [call EXCEPT ![r] = post(call[r], built)]
                    /\ steps' = [steps EXCEPT ![r] = <<"extract", "build", "send">>]
                    /\ UNCHANGED <<outcome, flow, log>>
    /\ UNCHANGED <<filter, config, reply, clock>>

\* request_filter_resume with an introspection result shared between
\* evaluations: the reply to r's call also decides every other evaluation
\* that waits with the same token.
request_filter_resume_shared(r) ==
    /\ HostIdle
    /\ pc[r] = "awaiting"
    /\ \E rep \in Replies : \E clk \in clock_reads(rep) :
         LET d == do_filter_resume(rep, clk)
             same == { q \in Reqs : pc[q] = "awaiting"
                                    /\ request[q].resolved = request[r].resolved }
         IN
         /\ reply' = [reply EXCEPT ![r] = rep]
         /\ clock' = [clock EXCEPT ![r] = d.clock]
         /\ outcome' = [q \in Reqs |-> IF q \in same THEN d.res ELSE outcome[q]]
         /\ flow' = [q \in Reqs |-> IF q \in same THEN flow_of(d.res) ELSE flow[q]]
         /\ log' = [q \in Reqs |-> IF q \in same THEN log[q] \o log_of(d.res) ELSE log[q]]
         /\ steps' = [q \in Reqs |->
                        IF q \in same THEN steps[q] \o d.steps \o <<"map">> ELSE steps[q]]
         /\ pc' = [q \in Reqs |-> IF q \in same THEN "done" ELSE pc[q]]
    /\ UNCHANGED <<filter, config, request, call>>

\* request_filter resumed when the introspection call completes with rep:
\* the rest of introspect_token and do_filter (the clock reads clk when the
\* evaluation gets that far), then the outcome mapping.
request_filter_resume(r) ==
    /\ HostIdle
    /\ pc[r] = "awaiting"
    /\ pc' = [pc EXCEPT ![r] = "done"]
    /\ UNCHANGED <<filter, config, request, call>>
    /\ \E rep \in Replies : reply' = [reply EXCEPT ![r] = rep]
    /\ \E clk \in clock_reads(reply'[r]) :
         LET d == do_filter_resume(reply'[r], clk) IN
         /\ clock' = [clock EXCEPT ![r] = d.clock]
         /\ outcome' = [outcome EXCEPT ![r] = d.res]
         /\ flow' = [flow EXCEPT ![r] = flow_of(d.res)]
         /\ log' = [log EXCEPT ![r] = log[r] \o log_of(d.res)]
         /\ steps' = [steps EXCEPT ![r] = steps[r] \o d.steps \o <<"map">>]

\* The host takes the Flow returned for r (continues the request or sends the
\* early response); the evaluation's state is dropped.
deliver(r) ==
    /\ pc[r] = "done"
    /\ pc' = [pc EXCEPT ![r] = "idle"]
    /\ request' = [request EXCEPT ![r] = NoRequest]
    /\ call' = [call EXCEPT ![r] = <<>>]
    /\ reply' = [reply EXCEPT ![r] = NoReply]
    /\ clock' = [clock EXCEPT ![r] = ClockUnread]
    /\ outcome' = [outcome EXCEPT ![r] = Undecided]
    /\ flow' = [flow EXCEPT ![r] = NoFlow]
    /\ log' = [log EXCEPT ![r] = <<>>]
    /\ steps' = [steps EXCEPT ![r] = <<>>]
    /\ UNCHANGED <<filter, config>>

Next ==
    \/ \E bytes \in ConfigBytes : configure(bytes)
    \/ \E r \in Reqs : request_filter_call(r)
    \/ \E r \in Reqs : request_filter_resume(r)
    \/ \E r \in Reqs : deliver(r)

Spec == Init /\ [][Next]_vars

\* The host dispatches the completion of every introspection call that
\* returns, and takes every Flow a callback returns.
LiveSpec ==
    /\ Spec
    /\ \A r \in Reqs : SF_vars(request_filter_resume(r))
    /\ \A r \in Reqs : WF_vars(deliver(r))

TypeOK ==
    /\ filter \in {"init", "launched", "failed"}
    /\ config \in Configs \cup {NoConfig}
    /\ pc \in [Reqs -> {"idle", "awaiting", "done"}]
    /\ \A r \in Reqs :
         /\ request[r] \in Requests \cup {NoRequest}
         /\ Len(call[r]) <= 1
         /\ reply[r] \in Replies \cup {NoReply}
         /\ clock[r] \in ClockReads \cup {ClockUnread}
         /\ outcome[r].tag \in FilterErrors \cup {"Ok", "None"}
         /\ flow[r].kind \in {"Continue", "Break", "None"}

\* ------------------------------------------------------------------ claims
Range(seq) == { seq[i] : i \in 1..Len(seq) }

Done(r) == pc[r] = "done"

\* r's introspection call completed with a response (a status code was obtained).
GotStatus(r) == reply[r].k = "resp"

\* r's evaluation obtained a parsed IntrospectionResponse: status 200 and a
\* body that deserialises.
Parsed(r) ==
    /\ GotStatus(r)
    /\ reply[r].status = HTTP_OK
    /\ from_slice(reply[r].body).ok

Resp(r) == from_slice(reply[r].body).val

\* r's evaluation read the clock and got `now`.
ClockOk(r) == clock[r].k = "ok"
Now(r) == clock[r].t

Challenge == << <<"WWW-Authenticate", "Bearer realm=\"oauth2\"">> >>

Is401(f) ==
    /\ f.kind = "Break"
    /\ f.response.status = 401
    /\ f.response.headers = Challenge

Is500(f) ==
    /\ f.kind = "Break"
    /\ f.response.status = 500
    /\ f.response.headers = <<>>

IsContinue(f) == f.kind = "Continue" /\ f.response = NoResponse

\* C1: a request from which no token can be extracted (resolve_on_headers
\* fails, or the resolved value is not a string) ends with NoToken and is
\* answered 401 with the Bearer challenge header, never 500.
C1_NoTokenIs401 ==
    \A r \in Reqs :
        (Done(r) /\ request[r].resolved.k \in {"err", "null", "num"})
        => /\ outcome[r] = Err("NoToken", "")
           /\ Is401(flow[r])
           /\ flow[r].response.status # 500

C1_Witness ==
    \E r \in Reqs :
        /\ Done(r)
        /\ request[r].resolved.k = "num"
        /\ outcome[r].tag = "NoToken"
        /\ flow[r].response.status = 401

\* C2 as stated: a parsed response with active == false always ends with
\* InactiveToken, whatever exp and nbf are.
C2_InactiveAlways ==
    \A r \in Reqs :
        (Done(r) /\ Parsed(r) /\ ~Resp(r).active)
        => outcome[r].tag = "InactiveToken"

\* C2 amended: a parsed response with active == false ends with InactiveToken,
\* whatever exp and nbf are, when the clock read succeeds; when the clock read
\* fails the evaluation ends with Unexpected before active is looked at.
C2_InactiveWhenClockOk ==
    \A r \in Reqs :
        (Done(r) /\ Parsed(r) /\ ~Resp(r).active)
        => /\ ClockOk(r) => outcome[r] = Err("InactiveToken", "")
           /\ ~ClockOk(r) => outcome[r] = Err("Unexpected", "")

C2_Witness ==
    \E r \in Reqs :
        /\ Done(r) /\ Parsed(r) /\ ~Resp(r).active /\ ClockOk(r)
        /\ Resp(r).exp.some /\ Now(r) > Resp(r).exp.v
        /\ Resp(r).nbf.some /\ Now(r) < Resp(r).nbf.v
        /\ outcome[r].tag = "InactiveToken"

\* C3 as stated: with active == true and exp present, now > exp ends with
\* ExpiredToken and now == exp ends with Allowed.
C3_ExpiryAsStated ==
    \A r \in Reqs :
        (Done(r) /\ Parsed(r) /\ ClockOk(r) /\ Resp(r).active /\ Resp(r).exp.some)
        => /\ Now(r) > Resp(r).exp.v => outcome[r].tag = "ExpiredToken"
           /\ Now(r) = Resp(r).exp.v => outcome[r].tag = "Ok"

\* C3 amended: with active == true and exp present, now > exp ends with
\* ExpiredToken; now == exp is never rejected as expired, and ends with
\* Allowed when nbf is absent or now >= nbf (with now < nbf it ends with
\* NotYetActive).
C3_ExpiryStrict ==
    \A r \in Reqs :
        (Done(r) /\ Parsed(r) /\ ClockOk(r) /\ Resp(r).active /\ Resp(r).exp.some)
        => /\ Now(r) > Resp(r).exp.v => outcome[r] = Err("ExpiredToken", "")
           /\ Now(r) = Resp(r).exp.v =>
                IF Resp(r).nbf.some /\ Now(r) < Resp(r).nbf.v
                THEN outcome[r] = Err("NotYetActive", "")
                ELSE outcome[r] = Ok /\ IsContinue(flow[r])

C3_Witness ==
    \E r \in Reqs :
        /\ Done(r) /\ Parsed(r) /\ ClockOk(r) /\ Resp(r).active
        /\ Resp(r).exp.some /\ Now(r) = Resp(r).exp.v
        /\ Resp(r).nbf.some /\ Now(r) >= Resp(r).nbf.v
        /\ outcome[r] = Ok

\* C4 as stated: with active == true and nbf present, now < nbf ends with
\* NotYetActive and now == nbf ends with Allowed.
C4_NotBeforeAsStated ==
    \A r \in Reqs :
        (Done(r) /\ Parsed(r) /\ ClockOk(r) /\ Resp(r).active /\ Resp(r).nbf.some)
        => /\ Now(r) < Resp(r).nbf.v => outcome[r].tag = "NotYetActive"
           /\ Now(r) = Resp(r).nbf.v => outcome[r].tag = "Ok"

\* C4 amended: with active == true, nbf present and the expiry check passed
\* (exp absent or now <= exp), now < nbf ends with NotYetActive and now == nbf
\* ends with Allowed; when the expiry check fails (now > exp) the outcome is
\* ExpiredToken in both cases.
C4_NotBeforeStrict ==
    \A r \in Reqs :
        (Done(r) /\ Parsed(r) /\ ClockOk(r) /\ Resp(r).active /\ Resp(r).nbf.some)
        => IF Resp(r).exp.some /\ Now(r) > Resp(r).exp.v
           THEN outcome[r] = Err("ExpiredToken", "")
           ELSE /\ Now(r) < Resp(r).nbf.v => outcome[r] = Err("NotYetActive", "")
                /\ Now(r) = Resp(r).nbf.v => outcome[r] = Ok /\ IsContinue(flow[r])

C4_Witness ==
    \E r \in Reqs :
        /\ Done(r) /\ Parsed(r) /\ ClockOk(r) /\ Resp(r).active
        /\ Resp(r).nbf.some /\ Now(r) = Resp(r).nbf.v
        /\ Resp(r).exp.some /\ Now(r) <= Resp(r).exp.v
        /\ outcome[r] = Ok

\* C5: a parsed response with active == true, exp absent and nbf absent ends
\* with Allowed and request_filter returns Continue, for every clock value.
C5_NoConstraintsAllowed ==
    \A r \in Reqs :
        (Done(r) /\ Parsed(r) /\ ClockOk(r)
            /\ Resp(r).active /\ ~Resp(r).exp.some /\ ~Resp(r).nbf.some)
        => outcome[r] = Ok /\ IsContinue(flow[r])

C5_Witness ==
    \E r \in Reqs :
        /\ Done(r) /\ Parsed(r) /\ ClockOk(r) /\ Now(r) = MaxTime
        /\ Resp(r).active
        /\ reply[r].body.exp = JAbsent /\ reply[r].body.nbf = JAbsent
        /\ IsContinue(flow[r])

\* C6: an introspection call that completes with a status other than 200 ends
\* with InactiveToken without the body being parsed, whatever the body is,
\* and is answered 401 with the challenge header, never 500.
C6_Non200IsInactive ==
    \A r \in Reqs :
        (Done(r) /\ GotStatus(r) /\ reply[r].status # 200)
        => /\ outcome[r] = Err("InactiveToken", "")
           /\ "parse" \notin Range(steps[r])
           /\ Is401(flow[r])
           /\ flow[r].response.status # 500

C6_Witness ==
    \E r \in Reqs :
        /\ Done(r) /\ GotStatus(r) /\ reply[r].status = 503
        /\ reply[r].body = NotJson
        /\ outcome[r].tag = "InactiveToken"

\* C7: a 200 response whose body is not valid JSON or lacks the active member
\* ends with NonParsableIntrospectionBody and is answered 500; the clock is
\* not read, no time check is made, and the request is neither answered 401
\* nor continued.
C7_UnparsableIs500 ==
    \A r \in Reqs :
        (Done(r) /\ GotStatus(r) /\ reply[r].status = 200
            /\ (~reply[r].body.valid \/ reply[r].body.active.k = "absent"))
        => /\ outcome[r].tag = "NonParsableIntrospectionBody"
           /\ Is500(flow[r])
           /\ clock[r] = ClockUnread
           /\ Range(steps[r]) \cap {"clock", "active", "exp", "nbf"} = {}
           /\ flow[r].response.status # 401
           /\ flow[r].kind # "Continue"

C7_Witness ==
    \E r \in Reqs :
        /\ Done(r) /\ GotStatus(r) /\ reply[r].status = 200
        /\ reply[r].body.valid /\ reply[r].body.active.k = "absent"
        /\ reply[r].body.exp = JNum(0)
        /\ outcome[r].tag = "NonParsableIntrospectionBody"

\* C8: an introspection call whose transport fails ends with ClientError and
\* is answered 500, never 401 and never continued.
C8_TransportFailureIs500 ==
    \A r \in Reqs :
        (Done(r) /\ reply[r].k = "err")
        => /\ outcome[r] = Err("ClientError", reply[r].detail)
           /\ Is500(flow[r])
           /\ flow[r].response.status # 401
           /\ flow[r].kind # "Continue"

C8_Witness ==
    \E r \in Reqs :
        /\ Done(r) /\ reply[r].k = "err" /\ reply[r].detail = "refused"
        /\ outcome[r].tag = "ClientError"

\* C9: the outcome mapping is total and exclusive: Allowed continues; NoToken,
\* InactiveToken, ExpiredToken and NotYetActive give a 401 whose only header
\* is the challenge; Unexpected, ClientError and NonParsableIntrospectionBody
\* give a 500 without headers; no response has a body and no other status is
\* produced.
C9_MappingTotal ==
    \A r \in Reqs :
        Done(r)
        => /\ outcome[r].tag \in FilterErrors \cup {"Ok"}
           /\ outcome[r].tag = "Ok" <=> IsContinue(flow[r])
           /\ outcome[r].tag \in {"NoToken", "InactiveToken", "ExpiredToken",
                                  "NotYetActive"} <=> Is401(flow[r])
           /\ outcome[r].tag \in {"Unexpected", "ClientError",
                                  "NonParsableIntrospectionBody"} <=> Is500(flow[r])
           /\ flow[r].response.body = <<>>
           /\ flow[r].kind = "Break" => flow[r].response.status \in {401, 500}

C9_Witness ==
    \E r \in Reqs :
        /\ Done(r)
        /\ outcome[r].tag = "Unexpected"
        /\ Is500(flow[r])

\* C10: a rejected request gets exactly one early response and exactly one log
\* entry, at debug for a 401 and at warn for a 500; an allowed request gets no
\* early response and no log entry.
C10_OneResponseOneLog ==
    \A r \in Reqs :
        Done(r)
        => IF outcome[r].tag = "Ok"
           THEN IsContinue(flow[r]) /\ log[r] = <<>>
           ELSE /\ flow[r].kind = "Break"
                /\ Len(log[r]) = 1
                /\ flow[r].response.status = 401 => log[r][1].level = "debug"
                /\ flow[r].response.status = 500 => log[r][1].level = "warn"
                /\ flow[r].response.status \in {401, 500}

C10_Witness ==
    \E r \in Reqs :
        /\ Done(r)
        /\ outcome[r].tag = "ClientError"
        /\ flow[r].response.status = 500
        /\ Len(log[r]) = 1 /\ log[r][1].level = "warn"

\* The steps of one evaluation in the order of do_filter, before the mapping.
Pipeline == <<"extract", "build", "send", "status", "parse",
              "clock", "active", "exp", "nbf">>

IsPrefix(s, t) == Len(s) <= Len(t) /\ s = SubSeq(t, 1, Len(s))

\* The steps r performed before the outcome mapping.
Performed(r) ==
    IF Done(r) THEN SubSeq(steps[r], 1, Len(steps[r]) - 1) ELSE steps[r]

\* The step at which an evaluation with r's outcome stops.
LastStep(r) ==
    CASE outcome[r].tag = "NoToken" -> "extract"
      [] outcome[r].tag = "ClientError" -> "send"
      [] outcome[r].tag = "NonParsableIntrospectionBody" -> "parse"
      [] outcome[r].tag = "Unexpected" -> "clock"
      [] outcome[r].tag = "InactiveToken" -> IF Parsed(r) THEN "active" ELSE "status"
      [] outcome[r].tag = "ExpiredToken" -> "exp"
      [] OTHER -> "nbf"

\* C11: the steps of one evaluation occur in the order extraction,
\* introspection call, clock read, active, expiry, not-before, mapping; the
\* first failing step is the last one before the mapping; no call is sent
\* without a token and the clock is not read when introspection failed.
C11_StepsInOrder ==
    \A r \in Reqs :
        /\ IsPrefix(Performed(r), Pipeline)
        /\ "map" \in Range(steps[r]) <=> Done(r)
        /\ Done(r) =>
             /\ steps[r][Len(steps[r])] = "map"
             /\ Performed(r) # <<>>
             /\ Performed(r)[Len(Performed(r))] = LastStep(r)
             /\ outcome[r].tag = "NoToken" =>
                  call[r] = <<>> /\ reply[r] = NoReply /\ clock[r] = ClockUnread
             /\ ~Parsed(r) => clock[r] = ClockUnread

C11_Witness ==
    \E r \in Reqs :
        /\ Done(r)
        /\ outcome[r].tag = "ExpiredToken"
        /\ steps[r] = <<"extract", "build", "send", "status", "parse",
                        "clock", "active", "exp", "map">>

\* C12: every evaluation that has a token sends exactly one introspection
\* call, built from its own token, and never a second one whatever the call's
\* result; an outcome that rests on an introspection result rests on the
\* reply to the evaluation's own call, also when another evaluation holds an
\* identical token.
C12_OneFreshCall ==
    \A r \in Reqs :
        /\ Len(call[r]) <= 1
        /\ pc[r] = "idle" => call[r] = <<>>
        /\ pc[r] = "awaiting" => Len(call[r]) = 1 /\ reply[r] = NoReply
        /\ Done(r) =>
             /\ Len(call[r]) = 1 <=> request[r].resolved.k = "str"
             /\ Len(call[r]) = 1 <=> reply[r] \in Replies
             /\ Len(call[r]) = 0 <=> reply[r] = NoReply
        /\ Len(call[r]) >= 1 =>
             call[r][1].body = <<"token", "=">> \o encode(request[r].resolved.s)

C12_Witness ==
    \E r, q \in Reqs :
        /\ r # q
        /\ Done(r) /\ reply[r].k = "err" /\ Len(call[r]) = 1
        /\ pc[q] = "awaiting" /\ Len(call[q]) = 1
        /\ request[q].resolved = request[r].resolved

\* Everything the model holds about evaluation r.
SlotOf(r) ==
    <<pc[r], request[r], call[r], reply[r], clock[r], outcome[r], flow[r],
      log[r], steps[r]>>

\* C13: evaluations interleave at the introspection await in any order; every
\* step belongs to one evaluation and leaves every other evaluation and the
\* shared configuration unchanged, and the outcome of each evaluation is the
\* one request_filter gives for its own request, introspection result and
\* clock reading alone.
C13_Isolation ==
    [][ /\ \A r, q \in Reqs :
            r # q => (SlotOf(r)' = SlotOf(r) \/ SlotOf(q)' = SlotOf(q))
        /\ (\E r \in Reqs : SlotOf(r)' # SlotOf(r)) =>
               (config' = config /\ filter' = filter)
        /\ filter = "launched" => config' = config
        /\ \A r \in Reqs :
               Done(r)' =>
                   [res |-> outcome'[r], flow |-> flow'[r]]
                       = Evaluate(request'[r], config', reply'[r], clock'[r])
      ]_vars

C13_Witness ==
    \E r, q \in Reqs :
        /\ r # q
        /\ Done(r) /\ outcome[r].tag = "ExpiredToken"
        /\ pc[q] = "awaiting"
        /\ request[q].resolved = request[r].resolved

\* C14: the outcome and the HTTP action are a function of the extractor
\* result, the introspection result and the clock reading only: an evaluation
\* of any request with the same extractor result, under any configuration,
\* with the same introspection result and clock reading gives the same
\* outcome and the same HTTP action.
C14_ThreeInputsOnly ==
    \A r \in Reqs :
        Done(r) =>
            \A req2 \in Requests, cfg2 \in Configs :
                req2.resolved = request[r].resolved =>
                    Evaluate(req2, cfg2, reply[r], clock[r])
                        = [res |-> outcome[r], flow |-> flow[r]]

C14_Witness ==
    \E r \in Reqs :
        /\ Done(r)
        /\ request[r].agent = "browser"
        /\ config.authorization = "Basic B"
        /\ outcome[r] = Ok
        /\ \E req2 \in Requests, cfg2 \in Configs :
              /\ req2.resolved = request[r].resolved
              /\ req2.agent # request[r].agent
              /\ cfg2 # config

\* The three checks of a parsed response resp at time now, each by name.
CheckPasses(name, resp, now) ==
    CASE name = "active" -> resp.active
      [] name = "exp" -> ~resp.exp.some \/ now <= resp.exp.v
      [] name = "nbf" -> ~resp.nbf.some \/ now >= resp.nbf.v

CheckOrders ==
    { o \in [1..3 -> {"active", "exp", "nbf"}] : Range(o) = {"active", "exp", "nbf"} }

\* The first check that fails when the checks are made in order o ("none" when
\* all pass).
FirstViolated(o, resp, now) ==
    IF ~CheckPasses(o[1], resp, now) THEN o[1]
    ELSE IF ~CheckPasses(o[2], resp, now) THEN o[2]
    ELSE IF ~CheckPasses(o[3], resp, now) THEN o[3]
    ELSE "none"

\* C15: for a parsed response and a clock value the request continues exactly
\* when active is true, exp is absent or now <= exp, and nbf is absent or
\* now >= nbf; whatever the order in which the three checks are made, the
\* request is rejected exactly when some check is violated.
C15_BinaryDecision ==
    \A r \in Reqs :
        (Done(r) /\ Parsed(r) /\ ClockOk(r))
        => /\ IsContinue(flow[r]) <=>
                /\ Resp(r).active
                /\ ~Resp(r).exp.some \/ Now(r) <= Resp(r).exp.v
                /\ ~Resp(r).nbf.some \/ Now(r) >= Resp(r).nbf.v
           /\ \A o \in CheckOrders :
                (FirstViolated(o, Resp(r), Now(r)) = "none") <=> outcome[r] = Ok
           /\ flow[r].kind = "Break" <=> ~IsContinue(flow[r])

C15_Witness ==
    \E r \in Reqs :
        /\ Done(r) /\ Parsed(r) /\ ClockOk(r)
        /\ Resp(r).active
        /\ Resp(r).exp.some /\ Now(r) <= Resp(r).exp.v
        /\ Resp(r).nbf.some /\ Now(r) < Resp(r).nbf.v
        /\ flow[r].kind = "Break"

Count(seq, x) == Cardinality({ i \in 1..Len(seq) : seq[i] = x })

Position(seq, x) == CHOOSE i \in 1..Len(seq) : seq[i] = x

\* C18: the clock is read at most once per evaluation, exactly once when a
\* parsed introspection response was obtained, only after the introspection
\* call completed, and the expiry and not-before checks both compare against
\* the one value read.
C18_OneClockRead ==
    \A r \in Reqs :
        /\ Count(steps[r], "clock") <= 1
        /\ pc[r] # "done" => clock[r] = ClockUnread /\ Count(steps[r], "clock") = 0
        /\ Done(r) =>
             /\ Count(steps[r], "clock") = 1 <=> Parsed(r)
             /\ clock[r] \in ClockReads <=> Parsed(r)
             /\ Count(steps[r], "clock") = 1 =>
                  /\ Count(steps[r], "parse") = 1
                  /\ Position(steps[r], "send") < Position(steps[r], "clock")
                  /\ Position(steps[r], "parse") < Position(steps[r], "clock")
             /\ (Parsed(r) /\ ClockOk(r) /\ Resp(r).active) =>
                  /\ outcome[r].tag = "ExpiredToken" <=>
                        (Resp(r).exp.some /\ clock[r].t > Resp(r).exp.v)
                  /\ outcome[r].tag = "NotYetActive" <=>
                        /\ ~(Resp(r).exp.some /\ clock[r].t > Resp(r).exp.v)
                        /\ Resp(r).nbf.some /\ clock[r].t < Resp(r).nbf.v

C18_Witness ==
    \E r \in Reqs :
        /\ Done(r) /\ Parsed(r) /\ ClockOk(r) /\ Resp(r).active
        /\ Resp(r).exp.some /\ Resp(r).nbf.some
        /\ clock[r].t = Resp(r).exp.v /\ clock[r].t = Resp(r).nbf.v
        /\ Count(steps[r], "clock") = 1
        /\ outcome[r] = Ok

\* C19: the rejection reason names the first violated check: ExpiredToken only
\* after a 200, a parsed body and active true; NotYetActive only when, in
\* addition, exp is absent or now <= exp; a response with active true that
\* violates both exp and nbf is rejected as ExpiredToken.
C19_FirstViolatedCheck ==
    \A r \in Reqs :
        Done(r) =>
            /\ outcome[r].tag = "ExpiredToken" =>
                 /\ reply[r].status = 200 /\ Parsed(r) /\ ClockOk(r)
                 /\ Resp(r).active
                 /\ Resp(r).exp.some /\ Now(r) > Resp(r).exp.v
            /\ outcome[r].tag = "NotYetActive" =>
                 /\ reply[r].status = 200 /\ Parsed(r) /\ ClockOk(r)
                 /\ Resp(r).active
                 /\ ~Resp(r).exp.some \/ Now(r) <= Resp(r).exp.v
                 /\ Resp(r).nbf.some /\ Now(r) < Resp(r).nbf.v
            /\ ( /\ Parsed(r) /\ ClockOk(r) /\ Resp(r).active
                 /\ Resp(r).exp.some /\ Now(r) > Resp(r).exp.v
                 /\ Resp(r).nbf.some /\ Now(r) < Resp(r).nbf.v )
               => outcome[r] = Err("ExpiredToken", "")

C19_Witness ==
    \E r \in Reqs :
        /\ Done(r) /\ Parsed(r) /\ ClockOk(r) /\ Resp(r).active
        /\ Resp(r).exp.some /\ Now(r) > Resp(r).exp.v
        /\ Resp(r).nbf.some /\ Now(r) < Resp(r).nbf.v
        /\ outcome[r].tag = "ExpiredToken"

\* C20: when the clock read fails after a parsed 200 response, the outcome is
\* Unexpected, answered 500 with one warn log line, whatever active, exp and
\* nbf are: the clock is read before the active flag is looked at.
C20_ClockFailureIs500 ==
    \A r \in Reqs :
        (Done(r) /\ Parsed(r) /\ clock[r].k = "err")
        => /\ outcome[r] = Err("Unexpected", "")
           /\ Is500(flow[r])
           /\ Len(log[r]) = 1 /\ log[r][1].level = "warn"
           /\ "active" \notin Range(steps[r])
           /\ Performed(r)[Len(Performed(r))] = "clock"

C20_Witness ==
    \E r \in Reqs :
        /\ Done(r) /\ Parsed(r) /\ clock[r].k = "err"
        /\ ~Resp(r).active
        /\ Resp(r).exp.some /\ Resp(r).nbf.some
        /\ outcome[r].tag = "Unexpected"

\* Evaluation r has ended with one terminal outcome: Continue, a 401 or a 500.
Terminal(r) ==
    /\ Done(r)
    /\ outcome[r].tag \in FilterErrors \cup {"Ok"}
    /\ \/ IsContinue(flow[r])
       \/ flow[r].kind = "Break" /\ flow[r].response.status \in {401, 500}
    /\ outcome[r].tag # "Ok" => flow[r].kind = "Break"

\* C16: every evaluation that is started ends with exactly one terminal
\* outcome, provided its introspection call returns; no evaluation is done
\* without a Flow.
C16_EveryEvaluationEnds ==
    /\ \A r \in Reqs : (pc[r] = "awaiting") ~> Terminal(r)
    /\ [](\A r \in Reqs : Done(r) => Terminal(r))
    /\ [][\A r \in Reqs : (pc[r] = "idle" /\ pc'[r] # "idle") =>
              (pc'[r] = "awaiting" \/ Terminal(r)')]_vars

C16_Witness ==
    \E r \in Reqs :
        /\ Terminal(r)
        /\ reply[r] \in Replies
        /\ outcome[r].tag = "NonParsableIntrospectionBody"
        /\ flow[r].response.status = 500

IdleSlot ==
    <<"idle", NoRequest, <<>>, NoReply, ClockUnread, Undecided, NoFlow, <<>>, <<>>>>

\* C17: when deserialising the configuration bytes fails, configure returns
\* before the filter is registered: the filter is never launched and no
\* request is ever evaluated; once the configuration is parsed the filter
\* stays launched with that configuration whatever the requests end with.
C17_ConfigFailureIsFatal ==
    /\ [](filter = "launched" <=> config \in Configs)
    /\ [](filter # "launched" => \A r \in Reqs : SlotOf(r) = IdleSlot)
    /\ [][ /\ filter = "failed" => filter' = "failed"
           /\ filter = "launched" => (filter' = "launched" /\ config' = config)
         ]_vars

C17_Witness ==
    /\ filter = "failed"
    /\ config = NoConfig
    /\ \A r \in Reqs : SlotOf(r) = IdleSlot

====
